---- MODULE Spec2Model ----
(***************************************************************************)
(* atm-cli: the command handlers of src/atm.js and the session file of     *)
(* src/session/session.js, as a state machine.                             *)
(*                                                                         *)
(* The store (MySQL, reached through db.execute) holds the accounts and    *)
(* transactions tables.  Every db.execute is awaited, so a handler is a    *)
(* sequence of store statements and another invocation's statements may    *)
(* run between any two of them: each statement is one step of the model.   *)
(* The code between two awaits runs without interruption and belongs to    *)
(* the step of the statement that precedes it.                             *)
(***************************************************************************)
EXTENDS Integers, Sequences, FiniteSets, TLC

\* ---------------------------------------------------------------- bounds
MaxAccounts == 2
MaxTx == 3

Procs == {"p1", "p2"}

\* ---------------------------------------------------------------- inputs
Names == {"ann", "bob"}

\* A PIN typed at the prompt is a string; here a sequence of characters.
Pin111111 == <<"1", "1", "1", "1", "1", "1">>
Pin999999 == <<"9", "9", "9", "9", "9", "9">>
Pin12ab == <<"1", "2", "a", "b">>
\* The -p flag was not given: options.pin is undefined and nothing is prompted.
NoPinFlag == <<>>
RegisterPins == {Pin111111, Pin12ab, NoPinFlag}
LoginPins == {Pin111111, Pin999999, NoPinFlag}

\* The <amount> argument as typed on the command line.
AmountArgs == {"abc", "Infinity", "-1", "0", "1", "2"}
\* Deposits are of one unit; withdrawals and transfers may ask for more.
DepositArgs == AmountArgs \ {"2"}
\* The amounts two concurrent invocations use.
ValidAmountArgs == {"1"}

\* The -t <target_account_id> option.
TargetIds == 1..MaxAccounts

\* ------------------------------------------------------------ JS numbers
Num(v) == [t |-> "num", v |-> v]
NaN == [t |-> "NaN", v |-> 0]
Infinity == [t |-> "Infinity", v |-> 0]

\* Number(amount) on the strings of AmountArgs.
Number(arg) ==
  CASE arg = "abc" -> NaN
    [] arg = "Infinity" -> Infinity
    [] arg = "-1" -> Num(0 - 1)
    [] arg = "0" -> Num(0)
    [] arg = "1" -> Num(1)
    [] arg = "2" -> Num(2)

isNaN(x) == x.t = "NaN"

\* x <= 0 for a JS number and the literal 0: false for NaN and Infinity.
LeZero(x) == x.t = "num" /\ x.v <= 0

\* x > y where y is finite (a stored balance): false for NaN, true for Infinity.
Gt(x, y) ==
  CASE x.t = "NaN" -> FALSE
    [] x.t = "Infinity" -> TRUE
    [] OTHER -> x.v > y.v

\* y + x and y - x where y is finite (a stored balance).
Plus(y, x) ==
  CASE x.t = "NaN" -> NaN
    [] x.t = "Infinity" -> Infinity
    [] OTHER -> Num(y.v + x.v)

Minus(y, x) ==
  CASE x.t = "NaN" -> NaN
    [] x.t = "Infinity" -> Infinity
    [] OTHER -> Num(y.v - x.v)

\* The amount check shared by deposit, withdraw and transfer.
InvalidAmount(amountNum) == isNaN(amountNum) \/ LeZero(amountNum)

\* ---------------------------------------------------------------- bcrypt
Digits == {"0", "1", "2", "3", "4", "5", "6", "7", "8", "9"}
Salts == {"salt"}

\* pin.length !== 6 || !/^\d{6}$/.test(pin)
BadPinFormat(pin) == Len(pin) # 6 \/ ~(\A i \in 1..Len(pin) : pin[i] \in Digits)

\* bcrypt.hash(pin, 10): a salted digest; the digest determines the PIN.
BcryptHash(pin, salt) == [salt |-> salt, digest |-> pin]
NoHash == [salt |-> "", digest |-> <<>>]

\* What bcrypt.compare resolves to.
BcryptVerify(pin, hash) == BcryptHash(pin, hash.salt) = hash

\* bcrypt.compare(pin, hash) returns a Promise of the verdict.
Promise(v) == [kind |-> "promise", value |-> v]
BcryptCompare(pin, hash) == Promise(BcryptVerify(pin, hash))

\* JS truthiness of a value tagged "bool" or "promise": every object is truthy.
Truthy(x) == IF x.kind = "bool" THEN x.value ELSE TRUE

\* ----------------------------------------------------------------- state
LockoutThreshold == 3

VARIABLES
  accounts,             \* the accounts table: row i has id i
  transactions,         \* the transactions table: row i has id i
  sessionFile,          \* session/session.json
  failedLoginAttempts,  \* the module-level counter of each process
  dbOpen,               \* whether each process's store connection is open
  pc,                   \* where each process's handler is
  loc,                  \* each handler's arguments and local variables
  active,               \* the processes that run
  storeFailed,          \* whether the store has rejected a statement (at most one fault)
  reuse,                \* whether a process takes several invocations (a harness)
  wrongStreak           \* history: each process's consecutive logins with wrong credentials

vars == <<accounts, transactions, sessionFile, failedLoginAttempts, dbOpen, pc, loc, active,
          storeFailed, reuse, wrongStreak>>

NoSession == [exists |-> FALSE, id |-> 0, name |-> ""]
NoRow == [id |-> 0, name |-> "", pin |-> NoHash, balance |-> 0]
NoSnapshot == [accounts |-> <<>>, transactions |-> <<>>, sessionFile |-> NoSession]

NoLocals ==
  [cmd |-> "none", name |-> "", pin |-> <<>>, amount |-> "", to |-> 0,
   session |-> NoSession, amountNum |-> NaN,
   account |-> NoRow, target |-> NoRow,
   newBalance |-> NaN, newReceiverBalance |-> NaN,
   insertId |-> 0, transferInId |-> 0,
   result |-> "none", nstmt |-> 0, before |-> NoSnapshot,
   priorStreak |-> 0, priorAttempts |-> 0]

Snapshot == [accounts |-> accounts, transactions |-> transactions, sessionFile |-> sessionFile]


\* ----------------------------------------------------------------- store
\* SELECT ... FROM accounts WHERE id = ?
SelectById(id) == SelectSeq(accounts, LAMBDA r : r.id = id)

\* SELECT ... FROM accounts WHERE name = ?
SelectByName(name) == SelectSeq(accounts, LAMBDA r : r.name = name)

\* INSERT INTO accounts (name, pin, balance) VALUES (?, ?, ?)
InsertAccount(name, hashedPIN, balance) ==
  Append(accounts,
         [id |-> Len(accounts) + 1, name |-> name, pin |-> hashedPIN, balance |-> balance])

\* UPDATE accounts SET balance = ? WHERE id = ?
UpdateBalanceById(balance, id) ==
  [i \in 1..Len(accounts) |->
     IF accounts[i].id = id THEN [accounts[i] EXCEPT !.balance = balance] ELSE accounts[i]]

\* UPDATE accounts SET balance = ? WHERE name = ?
UpdateBalanceByName(balance, name) ==
  [i \in 1..Len(accounts) |->
     IF accounts[i].name = name THEN [accounts[i] EXCEPT !.balance = balance] ELSE accounts[i]]

\* INSERT INTO transactions (account_id, type, amount[, target_id]) VALUES (...)
\* target_id 0 stands for NULL.
InsertTransaction(account_id, type, amount, target_id) ==
  Append(transactions,
         [id |-> Len(transactions) + 1, account_id |-> account_id, type |-> type,
          amount |-> amount, target_id |-> target_id])

\* The DECIMAL value the store makes of a parameter: a JS number or, for the
\* amount of deposit and withdraw rows, the argument string itself.
IsDecimal(x) == x.t = "num"
DecimalOfString(arg) == Number(arg).v

\* ------------------------------------------------------------- session.js
\* saveSession(data): fs.writeFileSync(SESSION_FILE, JSON.stringify(data))
saveSession(data) == [exists |-> TRUE, id |-> data.id, name |-> data.name]

\* getSession(): the parsed file, or null (NoSession) when the file is absent.
getSession == IF sessionFile.exists THEN sessionFile ELSE NoSession

\* if (!session)
NotLoggedIn_Never(session) == FALSE
NotLoggedIn(session) == ~session.exists

\* ------------------------------------------------------------- the steps
StatementLabels ==
  {"reg_insert", "login_select", "cb_select",
   "dep_select", "dep_update", "dep_insert", "dep_read",
   "wd_select", "wd_update", "wd_insert", "wd_read",
   "tr_target", "tr_sender", "tr_upd_sender", "tr_ins_out", "tr_upd_recv", "tr_ins_in",
   "tr_read_out", "tr_read_in"}

\* Rows and accounts the commands in flight have yet to insert (for the bounds).
PendingRows(q) ==
  CASE pc[q] \in {"dep_select", "dep_update", "dep_insert",
                  "wd_select", "wd_update", "wd_insert",
                  "tr_upd_recv", "tr_ins_in"} -> 1
    [] pc[q] \in {"tr_target", "tr_sender", "tr_upd_sender", "tr_ins_out"} -> 2
    [] OTHER -> 0
PendingAccounts(q) == IF pc[q] = "reg_insert" THEN 1 ELSE 0

RECURSIVE SumPendingRows(_)
SumPendingRows(S) ==
  IF S = {} THEN 0
  ELSE LET q == CHOOSE x \in S : TRUE IN PendingRows(q) + SumPendingRows(S \ {q})

RECURSIVE SumPendingAccounts(_)
SumPendingAccounts(S) ==
  IF S = {} THEN 0
  ELSE LET q == CHOOSE x \in S : TRUE IN PendingAccounts(q) + SumPendingAccounts(S \ {q})

RoomForRows(n) == Len(transactions) + SumPendingRows(Procs) + n <= MaxTx
RoomForAccount == Len(accounts) + SumPendingAccounts(Procs) < MaxAccounts

Idle(p) == p \in active /\ pc[p] = "idle"

\* A handler is entered: its arguments are bound and its store connection is there.
Enter(p, cmd) ==
  [NoLocals EXCEPT !.cmd = cmd, !.priorStreak = wrongStreak[p],
                   !.priorAttempts = failedLoginAttempts[p],
                   !.before = IF active = {p} THEN Snapshot ELSE NoSnapshot]

Goto(p, label) == pc' = [pc EXCEPT ![p] = label]
Acquire(p) == dbOpen' = [dbOpen EXCEPT ![p] = TRUE]

\* throw Error(...): the catch block reports it and control reaches finally.
Throw(p, l, kind) ==
  /\ loc' = [loc EXCEPT ![p] = [l EXCEPT !.result = kind]]
  /\ Goto(p, "finally")


\* A statement has run: one more db.execute of this handler.
Ran(l) == [l EXCEPT !.nstmt = @ + 1]

\* --------------------------------------------------------------- register
StartRegister(p, name, pin) ==
  /\ Idle(p)
  /\ RoomForAccount
  /\ Acquire(p)
  /\ LET l == [Enter(p, "register") EXCEPT !.name = name, !.pin = pin] IN
       IF pin = NoPinFlag THEN Throw(p, l, "PinRequired")
       ELSE IF BadPinFormat(pin) THEN Throw(p, l, "InvalidPin")
       ELSE loc' = [loc EXCEPT ![p] = l] /\ Goto(p, "reg_insert")
  /\ UNCHANGED <<accounts, transactions, sessionFile, failedLoginAttempts, active, storeFailed, reuse, wrongStreak>>

RegisterInsert(p, salt) ==
  /\ pc[p] = "reg_insert"
  /\ accounts' = InsertAccount(loc[p].name, BcryptHash(loc[p].pin, salt), 0)
  /\ loc' = [loc EXCEPT ![p] = [Ran(loc[p]) EXCEPT !.result = "ok"]]
  /\ Goto(p, "finally")
  /\ UNCHANGED <<transactions, sessionFile, failedLoginAttempts, dbOpen, active, storeFailed, reuse, wrongStreak>>

\* ------------------------------------------------------------------ login
\* A variant that never locks.
Locked_Never(attempts) == FALSE
Locked(attempts) == attempts >= LockoutThreshold

\* A variant in which a login that succeeds leaves the counter as it is.
AttemptsAfterSuccess_Kept(attempts) == attempts
\* failedLoginAttempts = 0;
AttemptsAfterSuccess(attempts) == 0

\* const match = bcrypt.compare(pin, accounts[0].pin): the Promise, not awaited.
PinMatch(pin, hash) == BcryptCompare(pin, hash)

\* History: whether (name, pin) are the credentials of the account login looks at.
CorrectCredentials(name, pin) ==
  LET rows == SelectByName(name) IN Len(rows) >= 1 /\ BcryptVerify(pin, rows[1].pin)

StartLogin(p, name, pin) ==
  /\ Idle(p)
  /\ Acquire(p)
  /\ LET l == [Enter(p, "login") EXCEPT !.name = name, !.pin = pin] IN
       IF Locked(failedLoginAttempts[p])
       THEN \* return before try: neither catch nor finally runs
            /\ loc' = [loc EXCEPT ![p] = [l EXCEPT !.result = "LockedOut"]]
            /\ Goto(p, "return")
            /\ UNCHANGED wrongStreak
       ELSE IF pin = NoPinFlag
       THEN Throw(p, l, "PinRequired") /\ wrongStreak' = [wrongStreak EXCEPT ![p] = 0]
       ELSE loc' = [loc EXCEPT ![p] = l] /\ Goto(p, "login_select") /\ UNCHANGED wrongStreak
  /\ UNCHANGED <<accounts, transactions, sessionFile, failedLoginAttempts, active,
                 storeFailed, reuse>>

LoginSelect(p) ==
  /\ pc[p] = "login_select"
  /\ LET l == Ran(loc[p])
         rows == SelectByName(l.name)
         wrong == ~CorrectCredentials(l.name, l.pin)
     IN
       /\ wrongStreak' = [wrongStreak EXCEPT
                            ![p] = IF wrong
                                   THEN (IF @ < LockoutThreshold THEN @ + 1 ELSE @)
                                   ELSE 0]
       /\ IF Len(rows) < 1
          THEN /\ failedLoginAttempts' = [failedLoginAttempts EXCEPT ![p] = @ + 1]
               /\ Throw(p, l, "InvalidCredentials")
               /\ UNCHANGED sessionFile
          ELSE IF ~Truthy(PinMatch(l.pin, rows[1].pin))
          THEN /\ failedLoginAttempts' = [failedLoginAttempts EXCEPT ![p] = @ + 1]
               /\ Throw(p, l, "InvalidCredentials")
               /\ UNCHANGED sessionFile
          ELSE /\ failedLoginAttempts' =
                    [failedLoginAttempts EXCEPT ![p] = AttemptsAfterSuccess(@)]
               /\ sessionFile' = saveSession([id |-> rows[1].id, name |-> rows[1].name])
               /\ loc' = [loc EXCEPT ![p] = [l EXCEPT !.account = rows[1], !.result = "ok"]]
               /\ Goto(p, "finally")
  /\ UNCHANGED <<accounts, transactions, dbOpen, active, storeFailed, reuse>>

\* ---------------------------------------------------------- check-balance
\* A variant whose session read consumes the session file.
StartCheckBalance_ReadOnce(p) ==
  /\ Idle(p)
  /\ Acquire(p)
  /\ LET l == [Enter(p, "check-balance") EXCEPT !.session = getSession] IN
       IF NotLoggedIn(l.session) THEN Throw(p, l, "NotAuthenticated")
       ELSE loc' = [loc EXCEPT ![p] = l] /\ Goto(p, "cb_select")
  /\ sessionFile' = NoSession
  /\ UNCHANGED <<accounts, transactions, failedLoginAttempts, active, storeFailed, reuse, wrongStreak>>

StartCheckBalance(p) ==
  /\ Idle(p)
  /\ Acquire(p)
  /\ LET l == [Enter(p, "check-balance") EXCEPT !.session = getSession] IN
       IF NotLoggedIn(l.session) THEN Throw(p, l, "NotAuthenticated")
       ELSE loc' = [loc EXCEPT ![p] = l] /\ Goto(p, "cb_select")
  /\ UNCHANGED <<accounts, transactions, sessionFile, failedLoginAttempts, active, storeFailed, reuse, wrongStreak>>

CheckBalanceSelect(p) ==
  /\ pc[p] = "cb_select"
  /\ LET l == Ran(loc[p])
         rows == SelectById(l.session.id)
     IN IF Len(rows) < 1 THEN Throw(p, l, "TypeError")
        ELSE /\ loc' = [loc EXCEPT ![p] = [l EXCEPT !.account = rows[1], !.result = "ok"]]
             /\ Goto(p, "finally")
  /\ UNCHANGED <<accounts, transactions, sessionFile, failedLoginAttempts, dbOpen, active,
                 storeFailed, reuse, wrongStreak>>

\* ---------------------------------------------------------------- deposit
StartDeposit(p, amount) ==
  /\ Idle(p)
  /\ RoomForRows(1)
  /\ Acquire(p)
  /\ LET l == [Enter(p, "deposit") EXCEPT
                 !.amount = amount, !.amountNum = Number(amount), !.session = getSession]
     IN IF NotLoggedIn(l.session) THEN Throw(p, l, "NotAuthenticated")
        ELSE IF InvalidAmount(l.amountNum) THEN Throw(p, l, "InvalidAmount")
        ELSE loc' = [loc EXCEPT ![p] = l] /\ Goto(p, "dep_select")
  /\ UNCHANGED <<accounts, transactions, sessionFile, failedLoginAttempts, active, storeFailed, reuse, wrongStreak>>

DepositSelect(p) ==
  /\ pc[p] = "dep_select"
  /\ LET l == Ran(loc[p])
         rows == SelectById(l.session.id)
     IN IF Len(rows) < 1 THEN Throw(p, l, "TypeError")
        ELSE /\ loc' = [loc EXCEPT ![p] =
                          [l EXCEPT !.account = rows[1],
                                    !.newBalance = Plus(Num(rows[1].balance), l.amountNum)]]
             /\ Goto(p, "dep_update")
  /\ UNCHANGED <<accounts, transactions, sessionFile, failedLoginAttempts, dbOpen, active,
                 storeFailed, reuse, wrongStreak>>

DepositUpdate(p) ==
  /\ pc[p] = "dep_update"
  /\ LET l == Ran(loc[p]) IN
       IF ~IsDecimal(l.newBalance)
       THEN Throw(p, l, "StoreUnavailable") /\ UNCHANGED accounts
       ELSE /\ accounts' = UpdateBalanceById(l.newBalance.v, l.session.id)
            /\ loc' = [loc EXCEPT ![p] = l]
            /\ Goto(p, "dep_insert")
  /\ UNCHANGED <<transactions, sessionFile, failedLoginAttempts, dbOpen, active, storeFailed, reuse, wrongStreak>>

DepositInsert(p) ==
  /\ pc[p] = "dep_insert"
  /\ transactions' =
       InsertTransaction(loc[p].account.id, "deposit", DecimalOfString(loc[p].amount), 0)
  /\ loc' = [loc EXCEPT ![p] = [Ran(loc[p]) EXCEPT !.insertId = Len(transactions')]]
  /\ Goto(p, "dep_read")
  /\ UNCHANGED <<accounts, sessionFile, failedLoginAttempts, dbOpen, active, storeFailed, reuse, wrongStreak>>

DepositRead(p) ==
  /\ pc[p] = "dep_read"
  /\ LET l == Ran(loc[p]) IN
       IF l.insertId \notin 1..Len(transactions) THEN Throw(p, l, "TypeError")
       ELSE loc' = [loc EXCEPT ![p] = [l EXCEPT !.result = "ok"]] /\ Goto(p, "finally")
  /\ UNCHANGED <<accounts, transactions, sessionFile, failedLoginAttempts, dbOpen, active,
                 storeFailed, reuse, wrongStreak>>


\* --------------------------------------------------------------- withdraw
\* if (amountNum > Number(balance))
WithdrawDeclined_Never(amountNum, balance) == FALSE
WithdrawDeclined(amountNum, balance) == Gt(amountNum, Num(balance))

StartWithdraw(p, amount) ==
  /\ Idle(p)
  /\ RoomForRows(1)
  /\ Acquire(p)
  /\ LET l == [Enter(p, "withdraw") EXCEPT
                 !.amount = amount, !.amountNum = Number(amount), !.session = getSession]
     IN IF NotLoggedIn(l.session) THEN Throw(p, l, "NotAuthenticated")
        ELSE IF InvalidAmount(l.amountNum) THEN Throw(p, l, "InvalidAmount")
        ELSE loc' = [loc EXCEPT ![p] = l] /\ Goto(p, "wd_select")
  /\ UNCHANGED <<accounts, transactions, sessionFile, failedLoginAttempts, active, storeFailed, reuse, wrongStreak>>

WithdrawSelect(p) ==
  /\ pc[p] = "wd_select"
  /\ LET l == Ran(loc[p])
         rows == SelectById(l.session.id)
     IN IF Len(rows) < 1 THEN Throw(p, l, "TypeError")
        ELSE LET m == [l EXCEPT !.account = rows[1]] IN
          IF WithdrawDeclined(l.amountNum, rows[1].balance)
          THEN Throw(p, m, "InsufficientFunds")
          ELSE /\ loc' = [loc EXCEPT ![p] =
                            [m EXCEPT !.newBalance = Minus(Num(rows[1].balance), l.amountNum)]]
               /\ Goto(p, "wd_update")
  /\ UNCHANGED <<accounts, transactions, sessionFile, failedLoginAttempts, dbOpen, active,
                 storeFailed, reuse, wrongStreak>>

WithdrawUpdate(p) ==
  /\ pc[p] = "wd_update"
  /\ LET l == Ran(loc[p]) IN
       IF ~IsDecimal(l.newBalance)
       THEN Throw(p, l, "StoreUnavailable") /\ UNCHANGED accounts
       ELSE /\ accounts' = UpdateBalanceByName(l.newBalance.v, l.account.name)
            /\ loc' = [loc EXCEPT ![p] = l]
            /\ Goto(p, "wd_insert")
  /\ UNCHANGED <<transactions, sessionFile, failedLoginAttempts, dbOpen, active, storeFailed, reuse, wrongStreak>>

WithdrawInsert(p) ==
  /\ pc[p] = "wd_insert"
  /\ transactions' =
       InsertTransaction(loc[p].account.id, "withdraw", DecimalOfString(loc[p].amount), 0)
  /\ loc' = [loc EXCEPT ![p] = [Ran(loc[p]) EXCEPT !.insertId = Len(transactions')]]
  /\ Goto(p, "wd_read")
  /\ UNCHANGED <<accounts, sessionFile, failedLoginAttempts, dbOpen, active, storeFailed, reuse, wrongStreak>>

WithdrawRead(p) ==
  /\ pc[p] = "wd_read"
  /\ LET l == Ran(loc[p]) IN
       IF l.insertId \notin 1..Len(transactions) THEN Throw(p, l, "TypeError")
       ELSE loc' = [loc EXCEPT ![p] = [l EXCEPT !.result = "ok"]] /\ Goto(p, "finally")
  /\ UNCHANGED <<accounts, transactions, sessionFile, failedLoginAttempts, dbOpen, active,
                 storeFailed, reuse, wrongStreak>>

\* --------------------------------------------------------------- transfer
\* if (amountNum > Number(account_balance))
TransferDeclined_OffByOne(amountNum, balance) == Gt(amountNum, Num(balance + 1))
TransferDeclined(amountNum, balance) == Gt(amountNum, Num(balance))

StartTransfer(p, amount, to) ==
  /\ Idle(p)
  /\ RoomForRows(2)
  /\ Acquire(p)
  /\ LET l == [Enter(p, "transfer") EXCEPT
                 !.amount = amount, !.to = to, !.session = getSession,
                 !.amountNum = Number(amount)]
     IN IF NotLoggedIn(l.session) THEN Throw(p, l, "NotAuthenticated")
        ELSE IF InvalidAmount(l.amountNum) THEN Throw(p, l, "InvalidAmount")
        ELSE loc' = [loc EXCEPT ![p] = l] /\ Goto(p, "tr_target")
  /\ UNCHANGED <<accounts, transactions, sessionFile, failedLoginAttempts, active, storeFailed, reuse, wrongStreak>>

TransferSelectTarget(p) ==
  /\ pc[p] = "tr_target"
  /\ LET l == Ran(loc[p])
         targetAccounts == SelectById(l.to)
     IN IF Len(targetAccounts) < 1 THEN Throw(p, l, "TargetNotFound")
        ELSE /\ loc' = [loc EXCEPT ![p] = [l EXCEPT !.target = targetAccounts[1]]]
             /\ Goto(p, "tr_sender")
  /\ UNCHANGED <<accounts, transactions, sessionFile, failedLoginAttempts, dbOpen, active,
                 storeFailed, reuse, wrongStreak>>

TransferSelectSender(p) ==
  /\ pc[p] = "tr_sender"
  /\ LET l == Ran(loc[p])
         rows == SelectById(l.session.id)
     IN IF Len(rows) < 1 THEN Throw(p, l, "TypeError")
        ELSE LET m == [l EXCEPT !.account = rows[1]] IN
          IF TransferDeclined(l.amountNum, rows[1].balance)
          THEN Throw(p, m, "InsufficientFunds")
          ELSE /\ loc' = [loc EXCEPT ![p] =
                            [m EXCEPT
                               !.newBalance = Minus(Num(rows[1].balance), l.amountNum),
                               !.newReceiverBalance =
                                  Plus(Num(l.target.balance), l.amountNum)]]
               /\ Goto(p, "tr_upd_sender")
  /\ UNCHANGED <<accounts, transactions, sessionFile, failedLoginAttempts, dbOpen, active,
                 storeFailed, reuse, wrongStreak>>

TransferUpdateSender(p) ==
  /\ pc[p] = "tr_upd_sender"
  /\ LET l == Ran(loc[p]) IN
       IF ~IsDecimal(l.newBalance)
       THEN Throw(p, l, "StoreUnavailable") /\ UNCHANGED accounts
       ELSE /\ accounts' = UpdateBalanceById(l.newBalance.v, l.account.id)
            /\ loc' = [loc EXCEPT ![p] = l]
            /\ Goto(p, "tr_ins_out")
  /\ UNCHANGED <<transactions, sessionFile, failedLoginAttempts, dbOpen, active, storeFailed, reuse, wrongStreak>>

TransferInsertOut(p) ==
  /\ pc[p] = "tr_ins_out"
  /\ LET l == Ran(loc[p]) IN
       IF ~IsDecimal(l.amountNum)
       THEN Throw(p, l, "StoreUnavailable") /\ UNCHANGED transactions
       ELSE /\ transactions' =
                 InsertTransaction(l.account.id, "transfer_out", l.amountNum.v, l.target.id)
            /\ loc' = [loc EXCEPT ![p] = [l EXCEPT !.insertId = Len(transactions')]]
            /\ Goto(p, "tr_upd_recv")
  /\ UNCHANGED <<accounts, sessionFile, failedLoginAttempts, dbOpen, active, storeFailed, reuse, wrongStreak>>

TransferUpdateReceiver(p) ==
  /\ pc[p] = "tr_upd_recv"
  /\ LET l == Ran(loc[p]) IN
       IF ~IsDecimal(l.newReceiverBalance)
       THEN Throw(p, l, "StoreUnavailable") /\ UNCHANGED accounts
       ELSE /\ accounts' = UpdateBalanceById(l.newReceiverBalance.v, l.target.id)
            /\ loc' = [loc EXCEPT ![p] = l]
            /\ Goto(p, "tr_ins_in")
  /\ UNCHANGED <<transactions, sessionFile, failedLoginAttempts, dbOpen, active, storeFailed, reuse, wrongStreak>>

TransferInsertIn(p) ==
  /\ pc[p] = "tr_ins_in"
  /\ LET l == Ran(loc[p]) IN
       IF ~IsDecimal(l.amountNum)
       THEN Throw(p, l, "StoreUnavailable") /\ UNCHANGED transactions
       ELSE /\ transactions' =
                 InsertTransaction(l.target.id, "transfer_in", l.amountNum.v, l.account.id)
            /\ loc' = [loc EXCEPT ![p] = [l EXCEPT !.transferInId = Len(transactions')]]
            /\ Goto(p, "tr_read_out")
  /\ UNCHANGED <<accounts, sessionFile, failedLoginAttempts, dbOpen, active, storeFailed, reuse, wrongStreak>>

TransferReadOut(p) ==
  /\ pc[p] = "tr_read_out"
  /\ LET l == Ran(loc[p]) IN
       IF l.insertId \notin 1..Len(transactions) THEN Throw(p, l, "TypeError")
       ELSE loc' = [loc EXCEPT ![p] = l] /\ Goto(p, "tr_read_in")
  /\ UNCHANGED <<accounts, transactions, sessionFile, failedLoginAttempts, dbOpen, active,
                 storeFailed, reuse, wrongStreak>>

TransferReadIn(p) ==
  /\ pc[p] = "tr_read_in"
  /\ LET l == Ran(loc[p]) IN
       IF l.transferInId \notin 1..Len(transactions) THEN Throw(p, l, "TypeError")
       ELSE loc' = [loc EXCEPT ![p] = [l EXCEPT !.result = "ok"]] /\ Goto(p, "finally")
  /\ UNCHANGED <<accounts, transactions, sessionFile, failedLoginAttempts, dbOpen, active,
                 storeFailed, reuse, wrongStreak>>

\* ------------------------------------------------- failure, finally, exit
\* The statement a handler is about to run is rejected by the store
\* (connection lost, timeout): db.execute throws and nothing is written.
StoreFail(p) ==
  /\ pc[p] \in StatementLabels
  /\ ~storeFailed
  /\ storeFailed' = TRUE
  /\ Throw(p, Ran(loc[p]), "StoreUnavailable")
  /\ wrongStreak' = [wrongStreak EXCEPT ![p] = IF pc[p] = "login_select" THEN 0 ELSE @]
  /\ UNCHANGED <<accounts, transactions, sessionFile, failedLoginAttempts, dbOpen, active,
                 reuse>>

\* The handler's outcome is decided (loc[p].result) and its writes are done.
Done(p) == pc[p] \in {"finally", "return"}

\* finally { await db.end(); } and the handler returns.  Run from the command
\* line the process then ends, and the next invocation is a new process in
\* which `let failedLoginAttempts = 0` has run again.
Finally(p) ==
  /\ pc[p] = "finally"
  /\ dbOpen' = [dbOpen EXCEPT ![p] = FALSE]
  /\ loc' = [loc EXCEPT ![p] = NoLocals]
  /\ Goto(p, "idle")
  /\ failedLoginAttempts' = [failedLoginAttempts EXCEPT ![p] = IF reuse THEN @ ELSE 0]
  /\ wrongStreak' = [wrongStreak EXCEPT ![p] = IF reuse THEN @ ELSE 0]
  /\ UNCHANGED <<accounts, transactions, sessionFile, active, storeFailed, reuse>>

\* login's early return: neither catch nor finally runs.
Return(p) ==
  /\ pc[p] = "return"
  /\ loc' = [loc EXCEPT ![p] = NoLocals]
  /\ Goto(p, "idle")
  /\ UNCHANGED <<accounts, transactions, sessionFile, failedLoginAttempts, dbOpen, active,
                 storeFailed, reuse, wrongStreak>>

\* ---------------------------------------------------------- specification
InitWith(running, harness) ==
  /\ accounts = <<>>
  /\ transactions = <<>>
  /\ sessionFile = NoSession
  /\ failedLoginAttempts = [p \in Procs |-> 0]
  /\ dbOpen = [p \in Procs |-> FALSE]
  /\ pc = [p \in Procs |-> "idle"]
  /\ loc = [p \in Procs |-> NoLocals]
  /\ active = running
  /\ storeFailed = FALSE
  /\ reuse = harness
  /\ wrongStreak = [p \in Procs |-> 0]

\* The command line, one invocation at a time, each in a process of its own.
Init == InitWith({"p1"}, FALSE)

\* Invocations from two terminals.
ConcInit == InitWith(Procs, FALSE)

\* One process that takes invocation after invocation.
HarnessInit == InitWith({"p1"}, TRUE)

Next ==
  \E p \in Procs :
    \/ \E name \in Names, pin \in RegisterPins : StartRegister(p, name, pin)
    \/ \E salt \in Salts : RegisterInsert(p, salt)
    \/ \E name \in Names, pin \in LoginPins : StartLogin(p, name, pin)
    \/ LoginSelect(p)
    \/ StartCheckBalance(p)
    \/ CheckBalanceSelect(p)
    \/ \E amount \in DepositArgs : StartDeposit(p, amount)
    \/ DepositSelect(p)
    \/ DepositUpdate(p)
    \/ DepositInsert(p)
    \/ DepositRead(p)
    \/ \E amount \in AmountArgs : StartWithdraw(p, amount)
    \/ WithdrawSelect(p)
    \/ WithdrawUpdate(p)
    \/ WithdrawInsert(p)
    \/ WithdrawRead(p)
    \/ \E amount \in AmountArgs, to \in TargetIds : StartTransfer(p, amount, to)
    \/ TransferSelectTarget(p)
    \/ TransferSelectSender(p)
    \/ TransferUpdateSender(p)
    \/ TransferInsertOut(p)
    \/ TransferUpdateReceiver(p)
    \/ TransferInsertIn(p)
    \/ TransferReadOut(p)
    \/ TransferReadIn(p)
    \/ StoreFail(p)
    \/ Finally(p)

\* Two terminals: the handlers that read or write balances, with amounts that
\* pass validation, interleaved statement by statement.
ConcNext ==
  \E p \in Procs :
    \/ \E name \in Names : StartRegister(p, name, Pin111111)
    \/ \E salt \in Salts : RegisterInsert(p, salt)
    \/ \E name \in Names : StartLogin(p, name, Pin111111)
    \/ LoginSelect(p)
    \/ \E amount \in ValidAmountArgs : StartDeposit(p, amount)
    \/ DepositSelect(p)
    \/ DepositUpdate(p)
    \/ DepositInsert(p)
    \/ DepositRead(p)
    \/ \E amount \in ValidAmountArgs : StartWithdraw(p, amount)
    \/ WithdrawSelect(p)
    \/ WithdrawUpdate(p)
    \/ WithdrawInsert(p)
    \/ WithdrawRead(p)
    \/ \E amount \in ValidAmountArgs, to \in TargetIds : StartTransfer(p, amount, to)
    \/ TransferSelectTarget(p)
    \/ TransferSelectSender(p)
    \/ TransferUpdateSender(p)
    \/ TransferInsertOut(p)
    \/ TransferUpdateReceiver(p)
    \/ TransferInsertIn(p)
    \/ TransferReadOut(p)
    \/ TransferReadIn(p)
    \/ Finally(p)

\* The login state machine inside one process.
HarnessNext ==
  \E p \in Procs :
    \/ \E name \in Names, pin \in RegisterPins : StartRegister(p, name, pin)
    \/ \E salt \in Salts : RegisterInsert(p, salt)
    \/ \E name \in Names, pin \in LoginPins : StartLogin(p, name, pin)
    \/ LoginSelect(p)
    \/ StartCheckBalance(p)
    \/ CheckBalanceSelect(p)
    \/ StoreFail(p)
    \/ Finally(p)
    \/ Return(p)

Spec == Init /\ [][Next]_vars
ConcSpec == ConcInit /\ [][ConcNext]_vars
HarnessSpec == HarnessInit /\ [][HarnessNext]_vars


\* ------------------------------------------------------------ properties
MoneyCmds == {"deposit", "withdraw", "transfer"}
GatedCmds == MoneyCmds \cup {"check-balance"}

\* The handler of p is over with this outcome; its locals are still there.
Ended(p, cmd, result) == Done(p) /\ loc[p].cmd = cmd /\ loc[p].result = result

\* What the store held when the handler of p was entered (one invocation at a time).
BalanceBefore(p, id) == loc[p].before.accounts[id].balance
StoreUntouched(p) ==
  /\ accounts = loc[p].before.accounts
  /\ transactions = loc[p].before.transactions

\* C1 (Conservation): a transfer that succeeds (the store rejecting nothing)
\* leaves the sum of the sender's and the receiver's balances as it was before
\* the transfer, whatever the target id.
C1_Conservation ==
  \A p \in Procs :
    (Ended(p, "transfer", "ok") /\ ~storeFailed) =>
      LET s == loc[p].session.id
          t == loc[p].to
      IN BalanceBefore(p, s) + BalanceBefore(p, t) = accounts[s].balance + accounts[t].balance

\* C2 (Non-negativity): whatever register, login, deposit, withdraw and transfer
\* invocations have run, and however two terminals interleave their statements,
\* every stored balance is >= 0.
C2_NonNegative == \A i \in 1..Len(accounts) : accounts[i].balance >= 0

\* C2's case: two withdrawals of the same account both passed the funds check on
\* the same read, and the first has already brought the balance to zero.
C2_Witness ==
  /\ pc["p1"] = "wd_insert"
  /\ pc["p2"] = "wd_update"
  /\ loc["p1"].account.id = loc["p2"].account.id
  /\ loc["p2"].account.balance = 1
  /\ accounts[loc["p1"].account.id].balance = 0

\* C3 (No lost update): when two deposits to the same account, run from two
\* terminals, have both succeeded, the balance is the balance the earlier of the
\* two read plus both amounts.
C3_NoLostUpdate ==
  (/\ Ended("p1", "deposit", "ok")
   /\ Ended("p2", "deposit", "ok")
   /\ loc["p1"].account.id = loc["p2"].account.id)
  => LET b1 == loc["p1"].account.balance
         b2 == loc["p2"].account.balance
         initial == IF b1 <= b2 THEN b1 ELSE b2
     IN accounts[loc["p1"].account.id].balance
          = initial + loc["p1"].amountNum.v + loc["p2"].amountNum.v

\* The statements of a handler from its first balance write up to its last write.
FirstWrite(cmd) == IF cmd = "transfer" THEN 3 ELSE 2
LastWrite(cmd) == IF cmd = "transfer" THEN 6 ELSE 3

\* C4 (Atomicity under store failure): when the store rejects a statement of a
\* deposit, withdraw or transfer after the handler's first balance write and no
\* later than its last write, balances and transaction log are as they were when
\* the handler began.
C4_Atomicity ==
  \A p \in Procs :
    (/\ Done(p)
     /\ loc[p].cmd \in MoneyCmds
     /\ loc[p].result = "StoreUnavailable"
     /\ loc[p].nstmt > FirstWrite(loc[p].cmd)
     /\ loc[p].nstmt <= LastWrite(loc[p].cmd))
    => StoreUntouched(p)

\* The rows a handler that succeeds is to add.
RowsOf(l, firstId) ==
  IF l.cmd = "transfer"
  THEN << [id |-> firstId, account_id |-> l.session.id, type |-> "transfer_out",
           amount |-> l.amountNum.v, target_id |-> l.to],
          [id |-> firstId + 1, account_id |-> l.to, type |-> "transfer_in",
           amount |-> l.amountNum.v, target_id |-> l.session.id] >>
  ELSE << [id |-> firstId, account_id |-> l.session.id, type |-> l.cmd,
           amount |-> l.amountNum.v, target_id |-> 0] >>

\* C5 (Exactly-one / exactly-two logging): a deposit or withdraw that succeeds
\* adds one row of its type, the session's account and the requested amount; a
\* transfer that succeeds adds one transfer_out row and one transfer_in row that
\* name each other's account; an operation that fails adds no row.
C5_Logging ==
  \A p \in Procs :
    (Done(p) /\ loc[p].cmd \in MoneyCmds) =>
      IF loc[p].result = "ok"
      THEN transactions =
             loc[p].before.transactions \o RowsOf(loc[p], Len(loc[p].before.transactions) + 1)
      ELSE transactions = loc[p].before.transactions

\* C6 (Login accepts only a verified PIN): a login that succeeds gave a PIN that
\* verifies against the stored hash of the account it looked up; a login whose
\* PIN does not verify fails with InvalidCredentials, counts one more failed
\* attempt and leaves the session file alone.
C6_VerifiedPin ==
  \A p \in Procs :
    (/\ Done(p)
     /\ loc[p].cmd = "login"
     /\ loc[p].nstmt = 1
     /\ loc[p].result # "StoreUnavailable"
     /\ Len(SelectByName(loc[p].name)) >= 1
     /\ ~BcryptVerify(loc[p].pin, SelectByName(loc[p].name)[1].pin))
    => /\ loc[p].result = "InvalidCredentials"
       /\ failedLoginAttempts[p] = loc[p].priorAttempts + 1
       /\ sessionFile = loc[p].before.sessionFile

\* C7 (Lockout): in one process, after 3 consecutive logins with wrong
\* credentials (unknown name or PIN mismatch), a login with correct credentials
\* fails with LockedOut and saves no session.
C7_Lockout ==
  \A p \in Procs :
    (/\ Done(p)
     /\ loc[p].cmd = "login"
     /\ loc[p].priorStreak >= LockoutThreshold
     /\ CorrectCredentials(loc[p].name, loc[p].pin))
    => /\ loc[p].result = "LockedOut"
       /\ sessionFile = loc[p].before.sessionFile

\* The session's account had less than the amount asked for, and the store
\* rejected none of the handler's statements.
AskedTooMuch(p) ==
  /\ Done(p)
  /\ loc[p].cmd \in {"withdraw", "transfer"}
  /\ loc[p].result # "StoreUnavailable"
  /\ loc[p].before.sessionFile.exists
  /\ Gt(loc[p].amountNum, Num(BalanceBefore(p, loc[p].before.sessionFile.id)))

\* C8 as stated (Insufficient funds): every withdraw or transfer of more than the
\* session account's balance (the store answering every statement) fails with
\* InsufficientFunds and changes nothing.
C8_AsStated ==
  \A p \in Procs :
    AskedTooMuch(p) => loc[p].result = "InsufficientFunds" /\ StoreUntouched(p)

\* C8 (Insufficient funds, amended): a withdraw, or a transfer to an account that
\* exists, of more than the session account's balance (the store answering every
\* statement) fails with InsufficientFunds and changes nothing.
C8_InsufficientFunds ==
  \A p \in Procs :
    (/\ AskedTooMuch(p)
     /\ loc[p].cmd = "transfer" => loc[p].to \in 1..Len(loc[p].before.accounts))
    => loc[p].result = "InsufficientFunds" /\ StoreUntouched(p)

\* C8's case: a transfer of 2 out of a balance of 1 was declined.
C8_Witness ==
  /\ Ended("p1", "transfer", "InsufficientFunds")
  /\ loc["p1"].amountNum = Num(2)
  /\ BalanceBefore("p1", loc["p1"].session.id) = 1

FinitePositive(x) == x.t = "num" /\ x.v > 0

\* C9 (Amount validation): with a session (and a store that rejects nothing),
\* deposit, withdraw and transfer reject every amount that is not a finite
\* positive number with InvalidAmount, before any store statement, and change
\* nothing.
C9_AmountValidation ==
  \A p \in Procs :
    (/\ Done(p)
     /\ ~storeFailed
     /\ loc[p].cmd \in MoneyCmds
     /\ loc[p].before.sessionFile.exists
     /\ ~FinitePositive(Number(loc[p].amount)))
    => /\ loc[p].result = "InvalidAmount"
       /\ loc[p].nstmt = 0
       /\ StoreUntouched(p)

\* C10 (Session gating): with no session file, check-balance, deposit, withdraw
\* and transfer fail with NotAuthenticated, run no store statement and change
\* nothing; none of them succeeds without a session file.
C10_SessionGating ==
  \A p \in Procs :
    (Done(p) /\ loc[p].cmd \in GatedCmds) =>
      /\ ~loc[p].before.sessionFile.exists =>
           /\ loc[p].result = "NotAuthenticated"
           /\ loc[p].nstmt = 0
           /\ StoreUntouched(p)
      /\ loc[p].result = "ok" => loc[p].before.sessionFile.exists

\* C10's case: with accounts registered but nobody logged in, a transfer was refused.
C10_Witness ==
  /\ Ended("p1", "transfer", "NotAuthenticated")
  /\ Len(accounts) >= 1
  /\ ~sessionFile.exists

\* C11 (Self-transfer): with a session, a valid amount the account can afford
\* and a store that rejects nothing, a transfer whose target id is the session
\* account's id ends with InvalidTarget, changes no balance and adds no
\* transaction row.
C11_SelfTransfer ==
  \A p \in Procs :
    (/\ Done(p)
     /\ loc[p].cmd = "transfer"
     /\ ~storeFailed
     /\ loc[p].before.sessionFile.exists
     /\ FinitePositive(loc[p].amountNum)
     /\ loc[p].to = loc[p].before.sessionFile.id
     /\ ~Gt(loc[p].amountNum, Num(BalanceBefore(p, loc[p].to))))
    => loc[p].result = "InvalidTarget" /\ StoreUntouched(p)

\* The handler of p took money out of the account it read: a withdraw, or a
\* transfer to another account, that succeeded.
TookOut(p) ==
  \/ Ended(p, "withdraw", "ok")
  \/ Ended(p, "transfer", "ok") /\ loc[p].to # loc[p].account.id

\* C12 (No double spend): when a withdraw and a withdraw or transfer out of the
\* same account, run from two terminals, have both succeeded, the balance is the
\* balance the earlier of the two read minus both amounts (so the two amounts
\* together were no more than that balance).
C12_NoDoubleSpend ==
  (/\ TookOut("p1")
   /\ TookOut("p2")
   /\ "withdraw" \in {loc["p1"].cmd, loc["p2"].cmd}
   /\ loc["p1"].account.id = loc["p2"].account.id)
  => LET b1 == loc["p1"].account.balance
         b2 == loc["p2"].account.balance
         initial == IF b1 >= b2 THEN b1 ELSE b2
         spent == loc["p1"].amountNum.v + loc["p2"].amountNum.v
     IN /\ spent <= initial
        /\ accounts[loc["p1"].account.id].balance = initial - spent

\* C13 (Connection release): whenever no handler is running in a process, the
\* store connection of its last invocation is closed, whichever way the handler
\* went out: success, a thrown error, or login's early return at the lockout
\* threshold.
C13_ConnectionRelease == \A p \in Procs : pc[p] = "idle" => ~dbOpen[p]

\* A step in which a handler calls saveSession: a login that succeeds.
SaveStep == \E p \in Procs : pc[p] = "login_select" /\ loc'[p].result = "ok"

\* C14 (Idempotent session read): across every step of the program in which
\* saveSession is not called, getSession returns what it returned before the
\* step (the same identity, or the no-session value both times); so two reads
\* with no save between them agree, and a handler's read leaves the session
\* file as it was.
C14_IdempotentRead == [][~SaveStep => getSession' = getSession]_vars

\* C14's case: a handler read the session of a logged-in account, ran its
\* statements, and a second read still gives the identity the first one gave.
C14_Witness ==
  /\ Ended("p1", "deposit", "ok")
  /\ loc["p1"].session.exists
  /\ getSession = loc["p1"].session

\* What the rows of the log add to (+) or take from (-) account id.
LedgerEffect(row, id) ==
  IF row.account_id # id THEN 0
  ELSE IF row.type \in {"deposit", "transfer_in"} THEN row.amount
  ELSE 0 - row.amount

RECURSIVE LedgerBalance(_, _)
LedgerBalance(rows, id) ==
  IF rows = <<>> THEN 0
  ELSE LedgerEffect(Head(rows), id) + LedgerBalance(Tail(rows), id)

\* C15 (Ledger reconstructs balances): whenever no invocation is in the middle
\* of its statements, in whatever way the statements of two terminals were
\* interleaved before, each account's balance is the sum of its deposit and
\* transfer_in rows minus the sum of its withdraw and transfer_out rows.
C15_Ledger ==
  (\A p \in Procs : pc[p] = "idle") =>
    \A i \in 1..Len(accounts) : accounts[i].balance = LedgerBalance(transactions, i)

\* C16 (Lockout is absorbing and store-free): in a process whose failed-attempt
\* counter is 3 or more, no step changes the counter or the session file, and a
\* login that starts is rejected at once with LockedOut, with no store
\* statement run or pending.
C16_LockoutAbsorbing ==
  [][\A p \in Procs :
       failedLoginAttempts[p] >= LockoutThreshold =>
         /\ failedLoginAttempts'[p] = failedLoginAttempts[p]
         /\ sessionFile' = sessionFile
         /\ (pc[p] = "idle" /\ loc'[p].cmd = "login") =>
              /\ loc'[p].result = "LockedOut"
              /\ loc'[p].nstmt = 0
              /\ pc'[p] \notin StatementLabels]_vars

\* C16's case: after three failed logins, a login with the credentials of a
\* registered account has been turned away.
C16_Witness ==
  /\ Ended("p1", "login", "LockedOut")
  /\ failedLoginAttempts["p1"] = LockoutThreshold
  /\ CorrectCredentials(loc["p1"].name, loc["p1"].pin)

\* C17 (Counter reset): in one process, the step in which a login succeeds sets
\* the failed-attempt counter to 0, the step in which a login fails with
\* InvalidCredentials adds one to it, and no other step changes it; so the
\* counter is the number of failed logins since the last success, and two
\* failures, a success and two more failures leave it at 2.
C17_CounterReset ==
  [][\A p \in Procs :
       LET decided == pc[p] = "login_select" /\ pc'[p] = "finally" IN
         IF decided /\ loc'[p].result = "ok"
         THEN failedLoginAttempts'[p] = 0
         ELSE IF decided /\ loc'[p].result = "InvalidCredentials"
         THEN failedLoginAttempts'[p] = failedLoginAttempts[p] + 1
         ELSE failedLoginAttempts'[p] = failedLoginAttempts[p]]_vars

\* C17's case: a login has succeeded after two failed ones and the counter is
\* back to 0.
C17_Witness ==
  /\ Ended("p1", "login", "ok")
  /\ loc["p1"].priorAttempts = 2
  /\ failedLoginAttempts["p1"] = 0

\* C18 (Fixed update order in transfer): whenever a transfer has updated one of
\* its two account rows and not yet the other, the row it has updated is the one
\* with the smaller account id, whether that is the sender or the receiver.
C18_FixedOrder ==
  \A p \in Procs :
    pc[p] \in {"tr_ins_out", "tr_upd_recv"} => loc[p].account.id <= loc[p].target.id

\* What a login observably did: its result, the counter and the session file.
LoginOutcome(p) ==
  [result |-> loc[p].result, attempts |-> failedLoginAttempts[p], session |-> sessionFile]

\* What a login with a name that is not in the store does (accounts.length < 1).
UnknownNameOutcome(p) ==
  [result |-> "InvalidCredentials", attempts |-> loc[p].priorAttempts + 1,
   session |-> loc[p].before.sessionFile]

\* C19 (Login does not reveal name existence): a login whose lookup ran, with a
\* PIN that verifies against the hash of no account, has the outcome a login
\* with an unknown name has (same error, same counter change, no session saved),
\* whether or not its name is in the store.
C19_NoNameOracle ==
  \A p \in Procs :
    (/\ Done(p)
     /\ loc[p].cmd = "login"
     /\ loc[p].nstmt = 1
     /\ loc[p].result # "StoreUnavailable"
     /\ \A i \in 1..Len(accounts) : ~BcryptVerify(loc[p].pin, accounts[i].pin))
    => LoginOutcome(p) = UnknownNameOutcome(p)

\* C20 (Single-account frame): a deposit or withdraw that succeeds (the store
\* having rejected nothing) changes the balance of the session's account by the
\* amount and leaves the balance of every other account as it was, also when
\* another account has the session account's name.
C20_Frame ==
  \A p \in Procs :
    (/\ Done(p)
     /\ ~storeFailed
     /\ loc[p].cmd \in {"deposit", "withdraw"}
     /\ loc[p].result = "ok") =>
      \A i \in 1..Len(accounts) :
        accounts[i].balance =
          IF i # loc[p].session.id THEN BalanceBefore(p, i)
          ELSE IF loc[p].cmd = "deposit" THEN BalanceBefore(p, i) + loc[p].amountNum.v
          ELSE BalanceBefore(p, i) - loc[p].amountNum.v

====
